---- MODULE Spec2Model ----
(***************************************************************************)
(* State-machine model of the classroom backend's enrollment admission     *)
(* (POST /api/enrollments), enrollment removal (DELETE                     *)
(* /api/enrollments/:id), class creation with invite-code allocation       *)
(* (POST /api/classes), class update (PATCH /api/classes/:id) and class    *)
(* deletion (DELETE /api/classes/:id).                                     *)
(*                                                                         *)
(* Every `await db...` of a handler is one atomic store operation; the     *)
(* synchronous code that follows it, up to the next await, belongs to the  *)
(* same step.  Handlers of different requests interleave at the awaits.    *)
(* A store operation that fails throws, has no effect on the store, and    *)
(* lands in the handler's catch block (HTTP 500); SpecRetry adds the       *)
(* insert that takes effect while its result is lost on the way back.      *)
(*                                                                         *)
(* User identifiers are opaque strings in the program; they are numbered   *)
(* here (0 stands for an absent, falsy field of the request body).         *)
(***************************************************************************)
EXTENDS Integers, Sequences, FiniteSets, TLC

\* ---------------------------------------------------------------- bounds
NumStudents == 2
MaxCapacity == 2
MaxEnrollmentId == 5
MaxClassId == 2
NumCodes == 2
MaxFractionDigits == 7

\* ------------------------------------------------------ program constants
MaxAttempts == 10
DefaultCapacity == 50
MAX_LIMIT == 100

\* ------------------------------------------------------------ input sets
\* the admission handlers that may be in flight at the same time
AdmitReqs == {"a1", "a2"}
\* the handler that serves the requests when they come one at a time
SeqReq == "a1"
\* the class-creation handlers that may be in flight at the same time
CreateReqs == {"c1", "c2"}
\* users that exist in the store and are named by admission requests
Students == 1..NumStudents
\* a student id that matches no user
GhostStudent == NumStudents + 1
\* users already enrolled when the model starts (named by no request)
EarlierStudent(i) == GhostStudent + i
\* req.body.studentId: absent (0), an existing user, or an unknown one
StudentInputs == 0..GhostStudent
\* req.body.classId: absent (0), the id of the class of the store (1), or an
\* id that matches no class (2)
ClassInputs == {0, 1, 2}
Statuses == {"active", "inactive", "archived"}
Codes == 1..NumCodes
\* capacity field of the class body: absent (-1 stands for undefined) or given
Undefined == 0 - 1
\* req.body of a class creation: capacity and status absent, or both given
\* (a capacity of 0 is a value, not an absent field)
ClassBodies == {[capacity |-> Undefined, status |-> "undefined"],
                [capacity |-> 0, status |-> "inactive"]}

NoClass == [id |-> 0, capacity |-> 0, status |-> "none"]
\* the department and subject handlers that may be in flight at the same time
CatalogReqs == {"k1", "k2"}
\* no department or subject request received yet
NoCatalogRequest ==
  [op |-> "none", pc |-> "idle", id |-> 0, code |-> 0, departmentId |-> 0,
   status |-> 0]
\* no DELETE /users/:id received yet
NoUserDelete == [pc |-> "idle", id |-> 0, status |-> 0]
\* a query parameter that the request does not carry
AbsentParam == [kind |-> "absent", str |-> <<>>]
\* no list request received yet
NoPage == [pc |-> "idle", page |-> AbsentParam, limit |-> AbsentParam,
           queries |-> 0, total |-> 0, status |-> 0, limitPerPage |-> 0,
           offset |-> 0, totalPages |-> 0]
\* no analytics request received yet
NoCounters == [available |-> 0, nearFull |-> 0, almostFull |-> 0, full |-> 0,
               status |-> 0]
\* generateInviteCode() not called yet
NoCandidate == <<"undefined">>
\* no class update request received yet
NoBody == [capacity |-> Undefined, status |-> "undefined", subjectId |-> 0,
           teacherId |-> 0]

VARIABLES
  classes,          \* rows of table classes: [id, capacity, status, inviteCode,
                    \* teacherId, subjectId]
  enrollments,      \* rows of table enrollments: [id, studentId, classId]
  users,            \* ids of the rows of table user
  nextEnrollmentId, \* serial of enrollments.id
  nextClassId,      \* serial of classes.id
  apc,              \* admission request -> position in the handler
  aStudent,         \* admission request -> req.body.studentId
  aClass,           \* admission request -> req.body.classId
  classInfo,        \* admission request -> row read by the class lookup
  aOps,             \* admission request -> store operations issued so far
  aOutcome,         \* admission request -> kind of response sent
  aDetail,          \* admission request -> capacity in the details / created id
  aCount,           \* admission request -> enrollmentCount.count while in use
  delResponse,      \* HTTP status of the last DELETE /enrollments/:id
  cpc,              \* creation request -> position in the handler
  inviteCode,       \* creation request -> let inviteCode
  attempts,         \* creation request -> let attempts
  checked,          \* creation request -> "free" when the last uniqueness
                    \* lookup was of the current inviteCode and found no class
  lookups,          \* creation request -> number of uniqueness lookups issued
  cOutcome,         \* creation request -> kind of response sent
  cCreated,         \* creation request -> id of the class it inserted, or 0
  ppc,              \* class update request: position in the handler
  pClass,           \* class update request: Number(req.params.id)
  pBody,            \* class update request: req.body
  pOutcome,         \* class update request: HTTP status of the response
  classDelResponse, \* HTTP status of the last DELETE /classes/:id
  rnd,              \* value returned by Math.random(), as base-36 digits
  candidate,        \* string returned by generateInviteCode()
  departments,      \* rows of table departments: [id, code]
  subjects,         \* rows of table subjects: [id, code, departmentId]
  nextDepartmentId, \* serial of departments.id
  nextSubjectId,    \* serial of subjects.id
  kreq,             \* department / subject request -> the handler's state
  udel,             \* DELETE /users/:id request: the handler's state
  page,             \* list request: parsed parameters and pagination sent
  capacityStatus    \* counters sent by GET /analytics/capacity-status

storeVars == <<classes, enrollments, users, nextEnrollmentId, nextClassId>>
admitVars == <<apc, aStudent, aClass, classInfo, aOps, aOutcome, aDetail,
               aCount>>
createVars == <<cpc, inviteCode, attempts, checked, lookups, cOutcome,
                cCreated>>
patchVars == <<ppc, pClass, pBody, pOutcome>>
genVars == <<rnd, candidate>>
classHandlerVars ==
  <<admitVars, delResponse, createVars, patchVars, classDelResponse, genVars>>
catalogVars == <<departments, subjects, nextDepartmentId, nextSubjectId>>
laterVars == <<catalogVars, kreq, udel, page, capacityStatus>>
restVars == <<patchVars, classDelResponse, genVars, laterVars>>
vars == <<storeVars, admitVars, delResponse, createVars, restVars>>

\* ------------------------------------------------------- store interface
\* select ... from classes where id = classId
ClassRows(classId) == {k \in classes : k.id = classId}

\* select count(*) from enrollments where classId = classId
\* (variant: the number of rows ever inserted, removed ones included)
CountEverInserted(classId) == nextEnrollmentId - 1
CountEnrollments(classId) ==
  Cardinality({e \in enrollments : e.classId = classId})

\* select id from enrollments where studentId = s and classId = c
FindEnrollment(s, c) ==
  {e \in enrollments : e.studentId = s /\ e.classId = c}

\* select id from classes where inviteCode = code
ClassesWithInviteCode(code) == {k \in classes : k.inviteCode = code}

\* the unique constraint of enrollments on (studentId, classId) rejects the row
\* (variant: the table has no such constraint)
NoEnrollmentUniqueConstraint(s, c) == FALSE
EnrollmentUniqueViolation(s, c) == FindEnrollment(s, c) # {}

\* the unique constraint of classes on inviteCode rejects the row
\* (variant: the table has no such constraint)
NoInviteCodeUniqueConstraint(code) == FALSE
InviteCodeUniqueViolation(code) == ClassesWithInviteCode(code) # {}

\* enrollments.classId references classes.id with delete cascade ("Delete
\* class (cascades to enrollments)"): the rows that go with class classId
\* (variant: the reference has no cascade)
CascadedEnrollmentsNone(classId) == {}
CascadedEnrollments(classId) == {e \in enrollments : e.classId = classId}

\* the same reference rejects an enrollment row that names no class
ClassForeignKeyViolation(classId) == ClassRows(classId) = {}

\* ------------------------------------------------ admission: conditions
\* if (!studentId || !classId)
MissingFields(s, c) == s = 0 \/ c = 0

\* const [classInfo] = await ...: the first row of the result, or undefined
FirstRow(rows) ==
  IF rows = {} THEN {NoClass}
  ELSE {[id |-> k.id, capacity |-> k.capacity, status |-> k.status] : k \in rows}

\* if (!classInfo)
\* (variant: the existence check is left out)
ClassMissingNever(info) == FALSE
ClassMissing(info) == info = NoClass

\* if (classInfo.status !== "active") is not taken
\* (variant: the status check is left out)
ClassOpenAlways(info) == TRUE
ClassOpen(info) == info.status = "active"

\* if (enrollmentCount && enrollmentCount.count >= classInfo.capacity)
\* (variants: > for >=; the capacity check is left out)
AtCapacityStrict(count, info) == count > info.capacity
AtCapacityNever(count, info) == FALSE
AtCapacity(count, info) == count >= info.capacity

\* details: `... capacity of ${classInfo.capacity} students.`
CapacityDetail(count, info) == info.capacity

\* if (!student) is not taken
\* (variant: the student check is left out)
StudentFoundAlways(s) == TRUE
StudentFound(s) == s \in users

\* if (existing): the duplicate check
\* (variant: the duplicate check is left out)
AlreadyEnrolledNever(s, c) == FALSE
AlreadyEnrolled(s, c) == FindEnrollment(s, c) # {}

\* .returning({ id: enrollments.id }) of the inserted row
\* (variant: the id of the row inserted before)
ReturnedIdStale(newId) == newId - 1
ReturnedId(newId) == newId

\* catch (error): res.status(500), "Failed to create enrollment"
\* (variant: the catch block answers "already enrolled")
CatchKindDuplicate == "DuplicateEnrollment"
CatchKind == "StorageUnavailable"

\* res.status(...).json(...) of each kind of response
ResponseOf(kind) ==
  CASE kind = "ValidationError" ->
         [status |-> 400, error |-> "StudentId and classId are required"]
    [] kind = "InvalidClass" ->
         [status |-> 400, error |-> "Invalid class ID"]
    [] kind = "ClassNotOpen" ->
         [status |-> 400, error |-> "Cannot enroll in inactive class"]
    [] kind = "CapacityExceeded" ->
         [status |-> 400, error |-> "Class is at full capacity"]
    [] kind = "InvalidStudent" ->
         [status |-> 400, error |-> "Invalid student ID"]
    [] kind = "DuplicateEnrollment" ->
         [status |-> 400, error |-> "Student is already enrolled in this class"]
    [] kind = "StorageUnavailable" ->
         [status |-> 500, error |-> "Failed to create enrollment"]
    [] kind = "Success" -> [status |-> 201, error |-> ""]
    [] OTHER -> [status |-> 0, error |-> ""]

StoreOps == {"getClassById", "countEnrollments", "getUserById",
             "findEnrollment", "insertEnrollment"}

Finish(r, kind, detail) ==
  /\ apc' = [apc EXCEPT ![r] = "done"]
  /\ aOutcome' = [aOutcome EXCEPT ![r] = kind]
  /\ aDetail' = [aDetail EXCEPT ![r] = detail]
  /\ aCount' = [aCount EXCEPT ![r] = 0]

Goto(r, op) ==
  /\ apc' = [apc EXCEPT ![r] = op]
  /\ UNCHANGED <<aOutcome, aDetail, aCount>>

Issue(r) == aOps' = [aOps EXCEPT ![r] = Append(@, apc[r])]

\* --------------------------------------------------- admission: actions
\* request received: field extraction and the required-fields check
AdmitStart(r, s, c) ==
  /\ apc[r] \in {"idle", "done"}
  /\ aStudent' = [aStudent EXCEPT ![r] = s]
  /\ aClass' = [aClass EXCEPT ![r] = c]
  /\ classInfo' = [classInfo EXCEPT ![r] = NoClass]
  /\ aOps' = [aOps EXCEPT ![r] = <<>>]
  /\ IF MissingFields(s, c)
       THEN Finish(r, "ValidationError", 0)
       ELSE /\ apc' = [apc EXCEPT ![r] = "getClassById"]
            /\ aOutcome' = [aOutcome EXCEPT ![r] = "none"]
            /\ aDetail' = [aDetail EXCEPT ![r] = 0]
            /\ aCount' = [aCount EXCEPT ![r] = 0]
  /\ UNCHANGED <<storeVars, delResponse, createVars>>
  /\ UNCHANGED restVars

\* class lookup, existence check and status check
AdmitGetClass(r) ==
  /\ apc[r] = "getClassById"
  /\ Issue(r)
  /\ \E info \in FirstRow(ClassRows(aClass[r])) :
       /\ classInfo' = [classInfo EXCEPT ![r] = info]
       /\ IF ClassMissing(info)
            THEN Finish(r, "InvalidClass", 0)
            ELSE IF ClassOpen(info)
                   THEN Goto(r, "countEnrollments")
                   ELSE Finish(r, "ClassNotOpen", 0)
  /\ UNCHANGED <<storeVars, aStudent, aClass, delResponse, createVars>>
  /\ UNCHANGED restVars

\* enrollment count and capacity check
AdmitCount(r) ==
  /\ apc[r] = "countEnrollments"
  /\ Issue(r)
  /\ LET count == CountEnrollments(aClass[r]) IN
       IF AtCapacity(count, classInfo[r])
         THEN Finish(r, "CapacityExceeded", CapacityDetail(count, classInfo[r]))
         ELSE /\ apc' = [apc EXCEPT ![r] = "getUserById"]
              /\ aCount' = [aCount EXCEPT ![r] = count]
              /\ UNCHANGED <<aOutcome, aDetail>>
  /\ UNCHANGED <<storeVars, aStudent, aClass, classInfo, delResponse,
                 createVars>>
  /\ UNCHANGED restVars

\* student lookup
AdmitGetUser(r) ==
  /\ apc[r] = "getUserById"
  /\ Issue(r)
  /\ IF StudentFound(aStudent[r])
       THEN Goto(r, "findEnrollment")
       ELSE Finish(r, "InvalidStudent", 0)
  /\ UNCHANGED <<storeVars, aStudent, aClass, classInfo, delResponse,
                 createVars>>
  /\ UNCHANGED restVars

\* duplicate lookup
AdmitFindEnrollment(r) ==
  /\ apc[r] = "findEnrollment"
  /\ Issue(r)
  /\ IF AlreadyEnrolled(aStudent[r], aClass[r])
       THEN Finish(r, "DuplicateEnrollment", 0)
       ELSE Goto(r, "insertEnrollment")
  /\ UNCHANGED <<storeVars, aStudent, aClass, classInfo, delResponse,
                 createVars>>
  /\ UNCHANGED restVars

\* insert of the enrollment row; a constraint violation throws into the catch
AdmitInsert(r) ==
  /\ apc[r] = "insertEnrollment"
  /\ Issue(r)
  /\ IF \/ EnrollmentUniqueViolation(aStudent[r], aClass[r])
        \/ ClassForeignKeyViolation(aClass[r])
       THEN /\ Finish(r, CatchKind, 0)
            /\ UNCHANGED <<enrollments, nextEnrollmentId>>
       ELSE /\ nextEnrollmentId <= MaxEnrollmentId
            /\ enrollments' = enrollments \cup
                 {[id |-> nextEnrollmentId, studentId |-> aStudent[r],
                   classId |-> aClass[r]]}
            /\ nextEnrollmentId' = nextEnrollmentId + 1
            /\ Finish(r, "Success", ReturnedId(nextEnrollmentId))
  /\ UNCHANGED <<classes, users, nextClassId, aStudent, aClass, classInfo,
                 delResponse, createVars>>
  /\ UNCHANGED restVars

\* any store operation of the handler fails: catch block, HTTP 500
AdmitStoreFail(r) ==
  /\ apc[r] \in StoreOps
  /\ Issue(r)
  /\ Finish(r, CatchKind, 0)
  /\ UNCHANGED <<storeVars, aStudent, aClass, classInfo, delResponse,
                 createVars>>
  /\ UNCHANGED restVars

\* the insert commits but its result never reaches the handler (the HTTP
\* call to the database rejects after the statement ran): catch block
AdmitInsertLost(r) ==
  /\ apc[r] = "insertEnrollment"
  /\ Issue(r)
  /\ ~EnrollmentUniqueViolation(aStudent[r], aClass[r])
  /\ ~ClassForeignKeyViolation(aClass[r])
  /\ nextEnrollmentId <= MaxEnrollmentId
  /\ enrollments' = enrollments \cup
       {[id |-> nextEnrollmentId, studentId |-> aStudent[r],
         classId |-> aClass[r]]}
  /\ nextEnrollmentId' = nextEnrollmentId + 1
  /\ Finish(r, CatchKind, 0)
  /\ UNCHANGED <<classes, users, nextClassId, aStudent, aClass, classInfo,
                 delResponse, createVars>>
  /\ UNCHANGED restVars

AdmitStep(r) ==
  \/ AdmitGetClass(r)
  \/ AdmitCount(r)
  \/ AdmitGetUser(r)
  \/ AdmitFindEnrollment(r)
  \/ AdmitInsert(r)
  \/ AdmitStoreFail(r)

\* ------------------------------------------------------------- removal
\* DELETE /api/enrollments/:id with a numeric id
DeleteEnrollment(id) ==
  /\ enrollments' = {e \in enrollments : e.id # id}
  /\ delResponse' = IF \E e \in enrollments : e.id = id THEN 200 ELSE 404
  /\ UNCHANGED <<classes, users, nextEnrollmentId, nextClassId, admitVars,
                 createVars>>
  /\ UNCHANGED restVars

\* DELETE /api/enrollments/:id with an id that is not a finite number
DeleteEnrollmentInvalid ==
  /\ delResponse' = 400
  /\ UNCHANGED <<storeVars, admitVars, createVars>>
  /\ UNCHANGED restVars

\* the delete statement fails: catch block
DeleteEnrollmentFail ==
  /\ delResponse' = 500
  /\ UNCHANGED <<storeVars, admitVars, createVars>>
  /\ UNCHANGED restVars

\* ------------------------------------------------------- class creation
\* routes/classes.ts holds two revisions of the router one after the other;
\* the handler modelled is the later one, with the uniqueness loop.
\* while (attempts < 10)
MoreAttempts(n) == n < MaxAttempts

\* if (!existing) break
\* (variant: the loop never breaks)
CodeFreeNever(rows) == FALSE
CodeFree(rows) == rows = {}

\* capacity: capacity ?? 50
CapacityOrDefault(cap) == IF cap = Undefined THEN DefaultCapacity ELSE cap

\* status: status ?? "active"
StatusOrDefault(st) == IF st = "undefined" THEN "active" ELSE st

CreateFinish(r, kind, id) ==
  /\ cpc' = [cpc EXCEPT ![r] = "done"]
  /\ cOutcome' = [cOutcome EXCEPT ![r] = kind]
  /\ cCreated' = [cCreated EXCEPT ![r] = id]

\* request received: required-fields check, first generateInviteCode(),
\* attempts = 0 and entry into the loop
CreateStart(r, fieldsPresent, code) ==
  /\ cpc[r] \in {"idle", "done"}
  /\ checked' = [checked EXCEPT ![r] = "unchecked"]
  /\ lookups' = [lookups EXCEPT ![r] = 0]
  /\ IF ~fieldsPresent
       THEN /\ CreateFinish(r, "ValidationError", 0)
            /\ inviteCode' = [inviteCode EXCEPT ![r] = 0]
            /\ attempts' = [attempts EXCEPT ![r] = 0]
       ELSE /\ inviteCode' = [inviteCode EXCEPT ![r] = code]
            /\ attempts' = [attempts EXCEPT ![r] = 0]
            /\ cpc' = [cpc EXCEPT ![r] =
                 IF MoreAttempts(0) THEN "lookup" ELSE "insertClass"]
            /\ cOutcome' = [cOutcome EXCEPT ![r] = "none"]
            /\ cCreated' = [cCreated EXCEPT ![r] = 0]
  /\ UNCHANGED <<storeVars, admitVars, delResponse>>
  /\ UNCHANGED restVars

\* one iteration of the loop: the uniqueness lookup, then break or
\* regenerate (code is the value of the next generateInviteCode())
CreateLookup(r, code) ==
  /\ cpc[r] = "lookup"
  /\ lookups' = [lookups EXCEPT ![r] = @ + 1]
  /\ IF CodeFree(ClassesWithInviteCode(inviteCode[r]))
       THEN /\ cpc' = [cpc EXCEPT ![r] = "insertClass"]
            /\ checked' = [checked EXCEPT ![r] = "free"]
            /\ UNCHANGED <<inviteCode, attempts>>
       ELSE /\ inviteCode' = [inviteCode EXCEPT ![r] = code]
            /\ attempts' = [attempts EXCEPT ![r] = @ + 1]
            /\ checked' = [checked EXCEPT ![r] = "unchecked"]
            /\ cpc' = [cpc EXCEPT ![r] =
                 IF MoreAttempts(attempts[r] + 1)
                   THEN "lookup" ELSE "insertClass"]
  /\ UNCHANGED <<storeVars, admitVars, delResponse, cOutcome, cCreated>>
  /\ UNCHANGED restVars

\* insert of the class row (cap and st are the body's capacity and status,
\* read only here); a constraint violation throws into the catch
CreateInsert(r, cap, st) ==
  /\ cpc[r] = "insertClass"
  /\ IF InviteCodeUniqueViolation(inviteCode[r])
       THEN /\ CreateFinish(r, "StorageUnavailable", 0)
            /\ UNCHANGED <<classes, nextClassId>>
       ELSE /\ nextClassId <= MaxClassId
            /\ classes' = classes \cup
                 {[id |-> nextClassId, capacity |-> CapacityOrDefault(cap),
                   status |-> StatusOrDefault(st),
                   inviteCode |-> inviteCode[r], teacherId |-> 1,
                   subjectId |-> 1]}
            /\ nextClassId' = nextClassId + 1
            /\ CreateFinish(r, "Created", nextClassId)
  /\ UNCHANGED <<enrollments, users, nextEnrollmentId, admitVars,
                 delResponse, inviteCode, attempts, checked, lookups>>
  /\ UNCHANGED restVars

\* the lookup or the insert fails: catch block, HTTP 500
CreateStoreFail(r) ==
  /\ cpc[r] \in {"lookup", "insertClass"}
  /\ CreateFinish(r, "StorageUnavailable", 0)
  /\ UNCHANGED <<storeVars, admitVars, delResponse, inviteCode, attempts,
                 checked, lookups>>
  /\ UNCHANGED restVars

\* --------------------------------------------------------- class update
\* req.body of a class update: capacity and status, absent or given, and
\* subjectId and teacherId, absent (0) or naming a row that exists or not
PatchBodies ==
  {[capacity |-> Undefined, status |-> "inactive", subjectId |-> 0,
    teacherId |-> 0],
   [capacity |-> 0, status |-> "undefined", subjectId |-> 1, teacherId |-> 2],
   [capacity |-> Undefined, status |-> "active", subjectId |-> 2,
    teacherId |-> 0],
   [capacity |-> Undefined, status |-> "undefined", subjectId |-> 0,
    teacherId |-> GhostStudent]}

\* select id from subjects where id = subjectId
SubjectRows(subjectId) == {j \in subjects : j.id = subjectId}

\* if (x !== undefined) updateData.x = x, for the fields of the body, then
\* set(updateData)
\* (variant: the update also writes the absent fields, as undefined)
UpdatedRowAll(k, body) ==
  [k EXCEPT !.capacity = body.capacity, !.status = body.status,
            !.subjectId = body.subjectId, !.teacherId = body.teacherId]
UpdatedRow(k, body) ==
  [k EXCEPT !.capacity = IF body.capacity = Undefined THEN @
                         ELSE body.capacity,
            !.status = IF body.status = "undefined" THEN @ ELSE body.status,
            !.subjectId = IF body.subjectId = 0 THEN @ ELSE body.subjectId,
            !.teacherId = IF body.teacherId = 0 THEN @ ELSE body.teacherId]

\* the reference checks still to run: if (subjectId), if (teacherId)
AfterFindClass(body) ==
  IF body.subjectId # 0 THEN "getSubject"
  ELSE IF body.teacherId # 0 THEN "getTeacher" ELSE "update"

\* the response is sent and the handler's locals are gone
PatchFinish(code) ==
  /\ ppc' = "done"
  /\ pOutcome' = code
  /\ pClass' = 0
  /\ pBody' = NoBody

\* PATCH /api/classes/:id with a numeric id: request received
PatchStart(c, body) ==
  /\ ppc \in {"idle", "done"}
  /\ ppc' = "findClass"
  /\ pClass' = c
  /\ pBody' = body
  /\ pOutcome' = 0
  /\ UNCHANGED <<storeVars, admitVars, delResponse, createVars,
                 classDelResponse, genVars>>
  /\ UNCHANGED laterVars

\* PATCH /api/classes/:id with an id that is not a finite number
PatchInvalidId ==
  /\ ppc \in {"idle", "done"}
  /\ PatchFinish(400)
  /\ UNCHANGED <<storeVars, admitVars, delResponse, createVars,
                 classDelResponse, genVars>>
  /\ UNCHANGED laterVars

\* existence lookup
PatchFindClass ==
  /\ ppc = "findClass"
  /\ IF ClassRows(pClass) = {}
       THEN PatchFinish(404)
       ELSE /\ ppc' = AfterFindClass(pBody)
            /\ UNCHANGED <<pOutcome, pClass, pBody>>
  /\ UNCHANGED <<storeVars, admitVars, delResponse, createVars,
                 classDelResponse, genVars>>
  /\ UNCHANGED laterVars

\* lookup of the subject named by the body
PatchGetSubject ==
  /\ ppc = "getSubject"
  /\ IF SubjectRows(pBody.subjectId) = {}
       THEN PatchFinish(400)
       ELSE /\ ppc' = IF pBody.teacherId # 0 THEN "getTeacher" ELSE "update"
            /\ UNCHANGED <<pOutcome, pClass, pBody>>
  /\ UNCHANGED <<storeVars, admitVars, delResponse, createVars,
                 classDelResponse, genVars>>
  /\ UNCHANGED laterVars

\* lookup of the teacher named by the body
PatchGetTeacher ==
  /\ ppc = "getTeacher"
  /\ IF pBody.teacherId \notin users
       THEN PatchFinish(400)
       ELSE /\ ppc' = "update"
            /\ UNCHANGED <<pOutcome, pClass, pBody>>
  /\ UNCHANGED <<storeVars, admitVars, delResponse, createVars,
                 classDelResponse, genVars>>
  /\ UNCHANGED laterVars

\* update ... set(updateData) where id = classId returning id; no row
\* returned throws into the catch
PatchUpdate ==
  /\ ppc = "update"
  /\ classes' = {IF k.id = pClass THEN UpdatedRow(k, pBody) ELSE k :
                   k \in classes}
  /\ PatchFinish(IF ClassRows(pClass) = {} THEN 500 ELSE 200)
  /\ UNCHANGED <<enrollments, users, nextEnrollmentId, nextClassId,
                 admitVars, delResponse, createVars, classDelResponse,
                 genVars>>
  /\ UNCHANGED laterVars

\* a store operation of the update handler fails: catch block
PatchStoreFail ==
  /\ ppc \in {"findClass", "getSubject", "getTeacher", "update"}
  /\ PatchFinish(500)
  /\ UNCHANGED <<storeVars, admitVars, delResponse, createVars,
                 classDelResponse, genVars>>
  /\ UNCHANGED laterVars

PatchStep ==
  \/ PatchFindClass
  \/ PatchGetSubject
  \/ PatchGetTeacher
  \/ PatchUpdate
  \/ PatchStoreFail

\* ------------------------------------------------------- class deletion
\* DELETE /api/classes/:id with a numeric id
DeleteClass(c) ==
  /\ classes' = {k \in classes : k.id # c}
  /\ enrollments' = enrollments \ CascadedEnrollments(c)
  /\ classDelResponse' = IF ClassRows(c) = {} THEN 404 ELSE 200
  /\ UNCHANGED <<users, nextEnrollmentId, nextClassId, admitVars,
                 delResponse, createVars, patchVars, genVars>>
  /\ UNCHANGED laterVars

\* DELETE /api/classes/:id with an id that is not a finite number
DeleteClassInvalid ==
  /\ classDelResponse' = 400
  /\ UNCHANGED <<storeVars, admitVars, delResponse, createVars, patchVars,
                 genVars>>
  /\ UNCHANGED laterVars

\* the delete statement fails: catch block
DeleteClassFail ==
  /\ classDelResponse' = 500
  /\ UNCHANGED <<storeVars, admitVars, delResponse, createVars, patchVars,
                 genVars>>
  /\ UNCHANGED laterVars

\* ------------------------------------------- departments and subjects
\* select id from departments where code = code
DepartmentsWithCode(code) == {d \in departments : d.code = code}

\* select id from departments where id = departmentId
DepartmentRows(id) == {d \in departments : d.id = id}

\* select id from subjects where code = code
SubjectsWithCode(code) == {j \in subjects : j.code = code}

\* select count(*) from subjects where departmentId = departmentId
SubjectsOf(id) == {j \in subjects : j.departmentId = id}

\* the store's own guard on a department row about to be written: the
\* handlers make their duplicate checks as round-trips of their own before
\* the write, and no constraint of the departments table is described
DepartmentCodeUniqueViolation(id, code) == FALSE

\* the store's own guard on a subject row about to be written or a
\* department row about to be deleted: none is described either
DepartmentReferenceViolation(departmentId) == FALSE

\* if (duplicate && duplicate.id !== id), duplicate the first row returned
IsDuplicate(row, id) == row.id # id

KFree(r) == kreq[r].pc \in {"idle", "done"}

\* the response is sent and the handler's locals are gone
KFinish(r, code) ==
  kreq' = [kreq EXCEPT ![r] = [NoCatalogRequest EXCEPT !.pc = "done",
                                                      !.status = code]]

KGoto(r, pc) == kreq' = [kreq EXCEPT ![r].pc = pc]

KBegin(r, op, pc, id, code, departmentId) ==
  kreq' = [kreq EXCEPT ![r] = [op |-> op, pc |-> pc, id |-> id,
                              code |-> code, departmentId |-> departmentId,
                              status |-> 0]]

\* POST /api/departments: request received; code 0 is an absent code
DeptPostStart(r, code) ==
  /\ KFree(r)
  /\ nextDepartmentId <= NumCodes + 1
  /\ IF code = 0 THEN KFinish(r, 400)
     ELSE KBegin(r, "postDepartment", "findCode", 0, code, 0)
  /\ UNCHANGED catalogVars
  /\ UNCHANGED <<storeVars, classHandlerVars, udel, page, capacityStatus>>

\* duplicate-code lookup of the creation
DeptPostFindCode(r) ==
  /\ kreq[r].op = "postDepartment" /\ kreq[r].pc = "findCode"
  /\ IF DepartmentsWithCode(kreq[r].code) # {} THEN KFinish(r, 400)
     ELSE KGoto(r, "insert")
  /\ UNCHANGED catalogVars
  /\ UNCHANGED <<storeVars, classHandlerVars, udel, page, capacityStatus>>

\* insert into departments ... returning id
DeptPostInsert(r) ==
  /\ kreq[r].op = "postDepartment" /\ kreq[r].pc = "insert"
  /\ IF DepartmentCodeUniqueViolation(nextDepartmentId, kreq[r].code)
       THEN KFinish(r, 500) /\ UNCHANGED catalogVars
       ELSE /\ departments' = departments \cup
                 {[id |-> nextDepartmentId, code |-> kreq[r].code]}
            /\ nextDepartmentId' = nextDepartmentId + 1
            /\ KFinish(r, 201)
            /\ UNCHANGED <<subjects, nextSubjectId>>
  /\ UNCHANGED <<storeVars, classHandlerVars, udel, page, capacityStatus>>

\* PATCH /api/departments/:id with a numeric id; code 0 is an absent code
DeptPatchStart(r, id, code) ==
  /\ KFree(r)
  /\ KBegin(r, "patchDepartment", "findDepartment", id, code, 0)
  /\ UNCHANGED catalogVars
  /\ UNCHANGED <<storeVars, classHandlerVars, udel, page, capacityStatus>>

\* existence lookup of the update
DeptPatchFind(r) ==
  /\ kreq[r].op = "patchDepartment" /\ kreq[r].pc = "findDepartment"
  /\ IF DepartmentRows(kreq[r].id) = {} THEN KFinish(r, 404)
     ELSE KGoto(r, IF kreq[r].code # 0 THEN "findDuplicate" ELSE "update")
  /\ UNCHANGED catalogVars
  /\ UNCHANGED <<storeVars, classHandlerVars, udel, page, capacityStatus>>

\* if (code): duplicate lookup of the update; the first row returned is
\* any of the rows that hold the code
DeptPatchFindDuplicate(r) ==
  /\ kreq[r].op = "patchDepartment" /\ kreq[r].pc = "findDuplicate"
  /\ IF DepartmentsWithCode(kreq[r].code) = {} THEN KGoto(r, "update")
     ELSE \E duplicate \in DepartmentsWithCode(kreq[r].code) :
            IF IsDuplicate(duplicate, kreq[r].id) THEN KFinish(r, 400)
            ELSE KGoto(r, "update")
  /\ UNCHANGED catalogVars
  /\ UNCHANGED <<storeVars, classHandlerVars, udel, page, capacityStatus>>

\* update departments set(updateData) where id = departmentId returning id;
\* no row returned throws into the catch
DeptPatchUpdate(r) ==
  /\ kreq[r].op = "patchDepartment" /\ kreq[r].pc = "update"
  /\ IF kreq[r].code # 0
        /\ DepartmentCodeUniqueViolation(kreq[r].id, kreq[r].code)
       THEN KFinish(r, 500) /\ UNCHANGED catalogVars
       ELSE /\ departments' =
                 {IF d.id = kreq[r].id /\ kreq[r].code # 0
                    THEN [d EXCEPT !.code = kreq[r].code] ELSE d :
                    d \in departments}
            /\ KFinish(r, IF DepartmentRows(kreq[r].id) = {} THEN 500
                          ELSE 200)
            /\ UNCHANGED <<subjects, nextDepartmentId, nextSubjectId>>
  /\ UNCHANGED <<storeVars, classHandlerVars, udel, page, capacityStatus>>

\* DELETE /api/departments/:id with a numeric id
DeptDeleteStart(r, id) ==
  /\ KFree(r)
  /\ KBegin(r, "deleteDepartment", "countSubjects", id, 0, 0)
  /\ UNCHANGED catalogVars
  /\ UNCHANGED <<storeVars, classHandlerVars, udel, page, capacityStatus>>

\* count of the department's subjects
DeptDeleteCount(r) ==
  /\ kreq[r].op = "deleteDepartment" /\ kreq[r].pc = "countSubjects"
  /\ IF Cardinality(SubjectsOf(kreq[r].id)) > 0 THEN KFinish(r, 409)
     ELSE KGoto(r, "delete")
  /\ UNCHANGED catalogVars
  /\ UNCHANGED <<storeVars, classHandlerVars, udel, page, capacityStatus>>

\* delete from departments where id = departmentId returning id
DeptDeleteRemove(r) ==
  /\ kreq[r].op = "deleteDepartment" /\ kreq[r].pc = "delete"
  /\ IF DepartmentReferenceViolation(kreq[r].id)
       THEN KFinish(r, 500) /\ UNCHANGED catalogVars
       ELSE /\ departments' = departments \ DepartmentRows(kreq[r].id)
            /\ KFinish(r, IF DepartmentRows(kreq[r].id) = {} THEN 404
                          ELSE 200)
            /\ UNCHANGED <<subjects, nextDepartmentId, nextSubjectId>>
  /\ UNCHANGED <<storeVars, classHandlerVars, udel, page, capacityStatus>>

\* POST /api/subjects: request received; 0 is an absent code or department
SubjPostStart(r, code, departmentId) ==
  /\ KFree(r)
  /\ nextSubjectId <= NumCodes + 1
  /\ IF code = 0 \/ departmentId = 0 THEN KFinish(r, 400)
     ELSE KBegin(r, "postSubject", "findCode", 0, code, departmentId)
  /\ UNCHANGED catalogVars
  /\ UNCHANGED <<storeVars, classHandlerVars, udel, page, capacityStatus>>

\* duplicate-code lookup of the subject creation
SubjPostFindCode(r) ==
  /\ kreq[r].op = "postSubject" /\ kreq[r].pc = "findCode"
  /\ IF SubjectsWithCode(kreq[r].code) # {} THEN KFinish(r, 400)
     ELSE KGoto(r, "findDepartment")
  /\ UNCHANGED catalogVars
  /\ UNCHANGED <<storeVars, classHandlerVars, udel, page, capacityStatus>>

\* department lookup of the subject creation
SubjPostFindDept(r) ==
  /\ kreq[r].op = "postSubject" /\ kreq[r].pc = "findDepartment"
  /\ IF DepartmentRows(kreq[r].departmentId) = {} THEN KFinish(r, 400)
     ELSE KGoto(r, "insert")
  /\ UNCHANGED catalogVars
  /\ UNCHANGED <<storeVars, classHandlerVars, udel, page, capacityStatus>>

\* insert into subjects ... returning id
SubjPostInsert(r) ==
  /\ kreq[r].op = "postSubject" /\ kreq[r].pc = "insert"
  /\ IF DepartmentReferenceViolation(kreq[r].departmentId)
       THEN KFinish(r, 500) /\ UNCHANGED catalogVars
       ELSE /\ subjects' = subjects \cup
                 {[id |-> nextSubjectId, code |-> kreq[r].code,
                   departmentId |-> kreq[r].departmentId]}
            /\ nextSubjectId' = nextSubjectId + 1
            /\ KFinish(r, 201)
            /\ UNCHANGED <<departments, nextDepartmentId>>
  /\ UNCHANGED <<storeVars, classHandlerVars, udel, page, capacityStatus>>

\* PATCH /api/subjects/:id with a numeric id; 0 is an absent field
SubjPatchStart(r, id, code, departmentId) ==
  /\ KFree(r)
  /\ KBegin(r, "patchSubject", "findSubject", id, code, departmentId)
  /\ UNCHANGED catalogVars
  /\ UNCHANGED <<storeVars, classHandlerVars, udel, page, capacityStatus>>

\* existence lookup of the subject update
SubjPatchFind(r) ==
  /\ kreq[r].op = "patchSubject" /\ kreq[r].pc = "findSubject"
  /\ IF SubjectRows(kreq[r].id) = {} THEN KFinish(r, 404)
     ELSE KGoto(r, IF kreq[r].code # 0 THEN "findDuplicate"
                   ELSE IF kreq[r].departmentId # 0 THEN "findDepartment"
                   ELSE "update")
  /\ UNCHANGED catalogVars
  /\ UNCHANGED <<storeVars, classHandlerVars, udel, page, capacityStatus>>

\* duplicate lookup of the subject update
SubjPatchFindDuplicate(r) ==
  /\ kreq[r].op = "patchSubject" /\ kreq[r].pc = "findDuplicate"
  /\ LET next == IF kreq[r].departmentId # 0 THEN "findDepartment"
                 ELSE "update"
     IN IF SubjectsWithCode(kreq[r].code) = {} THEN KGoto(r, next)
        ELSE \E duplicate \in SubjectsWithCode(kreq[r].code) :
               IF IsDuplicate(duplicate, kreq[r].id) THEN KFinish(r, 400)
               ELSE KGoto(r, next)
  /\ UNCHANGED catalogVars
  /\ UNCHANGED <<storeVars, classHandlerVars, udel, page, capacityStatus>>

\* department lookup of the subject update
SubjPatchFindDept(r) ==
  /\ kreq[r].op = "patchSubject" /\ kreq[r].pc = "findDepartment"
  /\ IF DepartmentRows(kreq[r].departmentId) = {} THEN KFinish(r, 400)
     ELSE KGoto(r, "update")
  /\ UNCHANGED catalogVars
  /\ UNCHANGED <<storeVars, classHandlerVars, udel, page, capacityStatus>>

\* update subjects set(updateData) where id = subjectId returning id
SubjPatchUpdate(r) ==
  /\ kreq[r].op = "patchSubject" /\ kreq[r].pc = "update"
  /\ IF kreq[r].departmentId # 0
        /\ DepartmentReferenceViolation(kreq[r].departmentId)
       THEN KFinish(r, 500) /\ UNCHANGED catalogVars
       ELSE /\ subjects' =
                 {IF j.id = kreq[r].id
                    THEN [j EXCEPT
                            !.code = IF kreq[r].code = 0 THEN @
                                     ELSE kreq[r].code,
                            !.departmentId = IF kreq[r].departmentId = 0
                                             THEN @
                                             ELSE kreq[r].departmentId]
                    ELSE j : j \in subjects}
            /\ KFinish(r, IF SubjectRows(kreq[r].id) = {} THEN 500 ELSE 200)
            /\ UNCHANGED <<departments, nextDepartmentId, nextSubjectId>>
  /\ UNCHANGED <<storeVars, classHandlerVars, udel, page, capacityStatus>>

\* PATCH or DELETE with an id that is not a finite number
CatalogInvalidId(r) ==
  /\ KFree(r)
  /\ KFinish(r, 400)
  /\ UNCHANGED catalogVars
  /\ UNCHANGED <<storeVars, classHandlerVars, udel, page, capacityStatus>>

\* a store operation of a department or subject handler fails: catch block
CatalogStoreFail(r) ==
  /\ ~KFree(r)
  /\ KFinish(r, 500)
  /\ UNCHANGED catalogVars
  /\ UNCHANGED <<storeVars, classHandlerVars, udel, page, capacityStatus>>

\* -------------------------------------------------------- user deletion
\* select count(*) from classes where teacherId = userId and status = 'active'
\* (variant: the count takes the classes of every status)
TeachesAny(u) == {k \in classes : k.teacherId = u}
TeachesActive(u) == {k \in classes : k.teacherId = u /\ k.status = "active"}

\* DELETE /api/users/:id: request received; the id is taken as it is
UserDeleteStart(u) ==
  /\ udel.pc \in {"idle", "done"}
  /\ udel' = [pc |-> "countClasses", id |-> u, status |-> 0]
  /\ UNCHANGED <<storeVars, admitVars, delResponse, createVars, patchVars,
                 classDelResponse, genVars, catalogVars, kreq, page,
                 capacityStatus>>

\* count of the active classes the user teaches
UserDeleteCount ==
  /\ udel.pc = "countClasses"
  /\ IF Cardinality(TeachesActive(udel.id)) > 0
       THEN udel' = [NoUserDelete EXCEPT !.pc = "done", !.status = 409]
       ELSE udel' = [udel EXCEPT !.pc = "deleteUser"]
  /\ UNCHANGED <<storeVars, admitVars, delResponse, createVars, patchVars,
                 classDelResponse, genVars, catalogVars, kreq, page,
                 capacityStatus>>

\* delete from user where id = userId returning id
UserDeleteRemove ==
  /\ udel.pc = "deleteUser"
  /\ users' = users \ {udel.id}
  /\ udel' = [NoUserDelete EXCEPT
               !.pc = "done",
               !.status = IF udel.id \in users THEN 200 ELSE 404]
  /\ UNCHANGED <<classes, enrollments, nextEnrollmentId, nextClassId,
                 admitVars, delResponse, createVars, patchVars,
                 classDelResponse, genVars, catalogVars, kreq, page,
                 capacityStatus>>

\* a store operation of the user deletion fails: catch block
UserDeleteFail ==
  /\ udel.pc \in {"countClasses", "deleteUser"}
  /\ udel' = [NoUserDelete EXCEPT !.pc = "done", !.status = 500]
  /\ UNCHANGED <<storeVars, admitVars, delResponse, createVars, patchVars,
                 classDelResponse, genVars, catalogVars, kreq, page,
                 capacityStatus>>

\* ------------------------------------------------------ list pagination
\* values of req.query.page and req.query.limit: strings as sequences of
\* characters
QueryStrings ==
  {<<>>, <<"a", "b", "c">>, <<"0">>, <<"1">>, <<"2">>, <<"-", "1">>,
   <<"1", "0">>, <<"1", "0", "0">>, <<"1", "0", "1">>, <<"2", "5", "0">>,
   <<"3", "x">>, <<" ", "7">>}

\* a query parameter: absent, a string, an array (str its first element) or
\* a nested object
QueryParams ==
  {AbsentParam, [kind |-> "object", str |-> <<>>],
   [kind |-> "array", str |-> <<"2">>]}
    \cup {[kind |-> "string", str |-> q] : q \in QueryStrings}

\* the counts the store may answer to select count(*)
Totals == {0, 1, 9, 10, 11, 100, 101, 250}

DecimalDigits == <<"0", "1", "2", "3", "4", "5", "6", "7", "8", "9">>

IsDigit(c) == \E i \in 1..Len(DecimalDigits) : DecimalDigits[i] = c

DigitValue(c) ==
  (CHOOSE i \in 1..Len(DecimalDigits) : DecimalDigits[i] = c) - 1

\* Array.isArray(p) ? p[0] : p, then typeof ... === "string" ? ... :
\* undefined, then ?? default
ParamString(param, default) ==
  IF param.kind \in {"string", "array"} THEN param.str ELSE default

RECURSIVE SkipWhiteSpace(_)
SkipWhiteSpace(str) ==
  IF str # <<>> /\ Head(str) = " " THEN SkipWhiteSpace(Tail(str)) ELSE str

\* the value of the leading decimal digits of str, after acc
RECURSIVE LeadingDigits(_, _)
LeadingDigits(str, acc) ==
  IF str = <<>> \/ ~IsDigit(Head(str)) THEN acc
  ELSE LeadingDigits(Tail(str), acc * 10 + DigitValue(Head(str)))

\* Number.parseInt(str, 10): leading white space skipped, an optional sign,
\* the longest run of digits; NaN when there is no digit
ParseInt(str) ==
  LET t == SkipWhiteSpace(str)
      signed == t # <<>> /\ Head(t) \in {"+", "-"}
      u == IF signed THEN Tail(t) ELSE t
  IN IF u = <<>> \/ ~IsDigit(Head(u)) THEN [nan |-> TRUE, value |-> 0]
     ELSE [nan |-> FALSE,
           value |-> IF signed /\ Head(t) = "-" THEN 0 - LeadingDigits(u, 0)
                     ELSE LeadingDigits(u, 0)]

ParsedPage(param) == ParseInt(ParamString(param, <<"1">>))
ParsedLimit(param) == ParseInt(ParamString(param, <<"1", "0">>))

\* Number.isNaN(parsedPage) || parsedPage < 1 || Number.isNaN(parsedLimit)
\* || parsedLimit < 1
InvalidPagination(pageParam, limitParam) ==
  \/ ParsedPage(pageParam).nan
  \/ ParsedPage(pageParam).value < 1
  \/ ParsedLimit(limitParam).nan
  \/ ParsedLimit(limitParam).value < 1

\* Math.min(parsedLimit, MAX_LIMIT)
\* (variant: the parsed limit is taken as it is)
LimitUncapped(parsedLimit) == parsedLimit
LimitPerPage(parsedLimit) ==
  IF parsedLimit < MAX_LIMIT THEN parsedLimit ELSE MAX_LIMIT

\* Math.ceil(totalCount / limitPerPage)
TotalPages(totalCount, limitPerPage) ==
  IF totalCount % limitPerPage = 0 THEN totalCount \div limitPerPage
  ELSE (totalCount \div limitPerPage) + 1

\* GET of a list endpoint: the query is parsed and checked
ListStart(pageParam, limitParam) ==
  /\ page.pc = "idle"
  /\ IF InvalidPagination(pageParam, limitParam)
       THEN page' = [NoPage EXCEPT !.pc = "done", !.page = pageParam,
                                   !.limit = limitParam, !.status = 400]
       ELSE page' =
              [NoPage EXCEPT
                 !.pc = "count", !.page = pageParam, !.limit = limitParam,
                 !.limitPerPage = LimitPerPage(ParsedLimit(limitParam).value),
                 !.offset = (ParsedPage(pageParam).value - 1)
                              * LimitPerPage(ParsedLimit(limitParam).value)]
  /\ UNCHANGED <<storeVars, classHandlerVars, catalogVars, kreq, udel,
                 capacityStatus>>

\* select count(*) of the filtered rows
ListCount(total) ==
  /\ page.pc = "count"
  /\ page' = [page EXCEPT !.pc = "select", !.total = total,
                          !.queries = @ + 1]
  /\ UNCHANGED <<storeVars, classHandlerVars, catalogVars, kreq, udel,
                 capacityStatus>>

\* select of the page of rows, and the response
ListSelect ==
  /\ page.pc = "select"
  /\ page' = [page EXCEPT !.pc = "done", !.status = 200, !.queries = @ + 1,
                          !.totalPages = TotalPages(page.total,
                                                    page.limitPerPage)]
  /\ UNCHANGED <<storeVars, classHandlerVars, catalogVars, kreq, udel,
                 capacityStatus>>

\* a store query of the list handler fails: catch block
ListFail ==
  /\ page.pc \in {"count", "select"}
  /\ page' = [page EXCEPT !.pc = "done", !.status = 500]
  /\ UNCHANGED <<storeVars, classHandlerVars, catalogVars, kreq, udel,
                 capacityStatus>>

\* ---------------------------------------------- capacity-status analytics
\* count(enrollments.id) of the class's group of the left join
EnrollmentCount(k) == Cardinality({e \in enrollments : e.classId = k.id})

\* (enrollmentCount / capacity) * 100 >= percent, in the arithmetic of
\* doubles: x / 0 is Infinity for x > 0, 0 / 0 is NaN and compares false,
\* and a negative capacity gives a quotient that is not positive
UtilizationAtLeast(count, capacity, percent) ==
  IF capacity > 0 THEN count * 100 >= percent * capacity
  ELSE IF capacity = 0 THEN count > 0
  ELSE FALSE

\* the if / else if chain of the forEach
Category(count, capacity) ==
  IF UtilizationAtLeast(count, capacity, 100) THEN "full"
  ELSE IF UtilizationAtLeast(count, capacity, 90) THEN "almostFull"
  ELSE IF UtilizationAtLeast(count, capacity, 70) THEN "nearFull"
  ELSE "available"

\* categorized, after the forEach over the rows of the query
Categorized(category) ==
  Cardinality({k \in classes :
                 Category(EnrollmentCount(k), k.capacity) = category})

\* GET /api/analytics/capacity-status
CapacityStatusGet ==
  /\ capacityStatus' = [available |-> Categorized("available"),
                        nearFull |-> Categorized("nearFull"),
                        almostFull |-> Categorized("almostFull"),
                        full |-> Categorized("full"),
                        status |-> 200]
  /\ UNCHANGED <<storeVars, classHandlerVars, catalogVars, kreq, udel,
                 page>>

\* the query fails: catch block
CapacityStatusFail ==
  /\ capacityStatus' = [NoCounters EXCEPT !.status = 500]
  /\ UNCHANGED <<storeVars, classHandlerVars, catalogVars, kreq, udel,
                 page>>

\* ------------------------------------------------- invite-code generator
\* the digits of Number.prototype.toString(36)
Digits36 ==
  <<"0", "1", "2", "3", "4", "5", "6", "7", "8", "9", "a", "b", "c", "d", "e",
    "f", "g", "h", "i", "j", "k", "l", "m", "n", "o", "p", "q", "r", "s", "t",
    "u", "v", "w", "x", "y", "z">>

UpperLetters ==
  <<"A", "B", "C", "D", "E", "F", "G", "H", "I", "J", "K", "L", "M", "N", "O",
    "P", "Q", "R", "S", "T", "U", "V", "W", "X", "Y", "Z">>

\* the base-36 digits that occur in the values drawn: 0, 1, i and z
RandomDigits == {0, 1, 18, 35}

\* Math.random(): a number in [0, 1), given by the digits after the point of
\* its base-36 expansion as toString(36) prints it (no trailing zero; the
\* empty sequence is the number 0, <<18>> is 0.5)
RandomValues ==
  {x \in UNION {[1..k -> RandomDigits] : k \in 0..MaxFractionDigits} :
     Len(x) = 0 \/ x[Len(x)] # 0}

\* x.toString(36)
ToString36(x) ==
  IF x = <<>> THEN <<"0">>
  ELSE <<"0", ".">> \o [i \in 1..Len(x) |-> Digits36[x[i] + 1]]

\* str.substring(start, end), positions counted from 0
Substring(str, start, end) ==
  SubSeq(str, start + 1, IF end < Len(str) THEN end ELSE Len(str))

UpperChar(ch) ==
  IF \E i \in 1..26 : Digits36[10 + i] = ch
    THEN UpperLetters[CHOOSE i \in 1..26 : Digits36[10 + i] = ch]
    ELSE ch

\* str.toUpperCase()
ToUpperCase(str) == [i \in 1..Len(str) |-> UpperChar(str[i])]

\* Math.random().toString(36).substring(2, 8).toUpperCase()
GenerateInviteCode(x) == ToUpperCase(Substring(ToString36(x), 2, 8))

\* one call of generateInviteCode(), Math.random() returning x
Generate(x) ==
  /\ rnd' = x
  /\ candidate' = GenerateInviteCode(x)
  /\ UNCHANGED <<storeVars, admitVars, delResponse, createVars, patchVars,
                 classDelResponse>>
  /\ UNCHANGED laterVars

\* ------------------------------------------------------------ initially
\* no request in flight
NoRequests ==
  /\ apc = [r \in AdmitReqs |-> "idle"]
  /\ aStudent = [r \in AdmitReqs |-> 0]
  /\ aClass = [r \in AdmitReqs |-> 0]
  /\ classInfo = [r \in AdmitReqs |-> NoClass]
  /\ aOps = [r \in AdmitReqs |-> <<>>]
  /\ aOutcome = [r \in AdmitReqs |-> "none"]
  /\ aDetail = [r \in AdmitReqs |-> 0]
  /\ aCount = [r \in AdmitReqs |-> 0]
  /\ delResponse = 0
  /\ cpc = [r \in CreateReqs |-> "idle"]
  /\ inviteCode = [r \in CreateReqs |-> 0]
  /\ attempts = [r \in CreateReqs |-> 0]
  /\ checked = [r \in CreateReqs |-> "unchecked"]
  /\ lookups = [r \in CreateReqs |-> 0]
  /\ cOutcome = [r \in CreateReqs |-> "none"]
  /\ cCreated = [r \in CreateReqs |-> 0]
  /\ ppc = "idle"
  /\ pClass = 0
  /\ pBody = NoBody
  /\ pOutcome = 0
  /\ classDelResponse = 0
  /\ rnd = <<>>
  /\ candidate = NoCandidate
  /\ departments = {[id |-> 1, code |-> 1]}
  /\ subjects = {[id |-> 1, code |-> 1, departmentId |-> 1]}
  /\ nextDepartmentId = 2
  /\ nextSubjectId = 2
  /\ kreq = [r \in CatalogReqs |-> NoCatalogRequest]
  /\ udel = NoUserDelete
  /\ page = NoPage
  /\ capacityStatus = NoCounters

\* the store of a running deployment: the users, one class of any capacity
\* and status, and n earlier students enrolled in it, n within capacity
Init ==
  /\ \E cap \in 1..MaxCapacity, st \in Statuses, n \in 0..MaxCapacity :
       /\ n <= cap
       /\ classes = {[id |-> 1, capacity |-> cap, status |-> st,
                      inviteCode |-> 1, teacherId |-> 1, subjectId |-> 1]}
       /\ enrollments =
            {[id |-> i, studentId |-> EarlierStudent(i), classId |-> 1] :
               i \in 1..n}
       /\ nextEnrollmentId = n + 1
  /\ users = Students \cup {EarlierStudent(i) : i \in 1..MaxCapacity}
  /\ nextClassId = 2
  /\ NoRequests

\* the same store before any enrollment
InitFresh ==
  /\ \E cap \in 1..MaxCapacity, st \in Statuses :
       classes = {[id |-> 1, capacity |-> cap, status |-> st,
                   inviteCode |-> 1, teacherId |-> 1, subjectId |-> 1]}
  /\ enrollments = {}
  /\ nextEnrollmentId = 1
  /\ users = Students \cup {EarlierStudent(i) : i \in 1..MaxCapacity}
  /\ nextClassId = 2
  /\ NoRequests

\* ------------------------------------------------------- specifications
\* concurrent admissions: the handlers interleave at every store operation
Next ==
  \/ \E r \in AdmitReqs, s \in StudentInputs, c \in ClassInputs :
       AdmitStart(r, s, c)
  \/ \E r \in AdmitReqs : AdmitStep(r)

Spec == Init /\ [][Next]_vars

\* admissions and removals processed one at a time
Idle == apc[SeqReq] \in {"idle", "done"}

NextSeq ==
  \/ \E s \in StudentInputs, c \in ClassInputs : AdmitStart(SeqReq, s, c)
  \/ AdmitStep(SeqReq)
  \/ \E id \in 1..MaxEnrollmentId : Idle /\ DeleteEnrollment(id)
  \/ Idle /\ DeleteEnrollmentInvalid
  \/ Idle /\ DeleteEnrollmentFail

SpecSeq == Init /\ [][NextSeq]_vars

\* admissions one at a time into a class that starts empty, no removal
NextRepeat ==
  \/ \E s \in StudentInputs, c \in ClassInputs : AdmitStart(SeqReq, s, c)
  \/ AdmitStep(SeqReq)

SpecRepeat == InitFresh /\ [][NextRepeat]_vars

\* no other handler is serving a request for the pair (s, c)
PairIdle(r, s, c) ==
  \A q \in AdmitReqs \ {r} :
    apc[q] \in {"idle", "done"} \/ aStudent[q] # s \/ aClass[q] # c

\* admissions where a request for a pair is issued only after the previous
\* request for that pair was answered; an insert may commit without its
\* result reaching the handler
NextRetry ==
  \/ \E r \in AdmitReqs, s \in StudentInputs \ {0}, c \in ClassInputs \ {0} :
       PairIdle(r, s, c) /\ AdmitStart(r, s, c)
  \/ \E r \in AdmitReqs : AdmitStep(r)
  \/ \E r \in AdmitReqs : AdmitInsertLost(r)

SpecRetry == Init /\ [][NextRetry]_vars

\* concurrent class creations
NextCreate ==
  \/ \E r \in CreateReqs, present \in BOOLEAN, code \in Codes :
       CreateStart(r, present, code)
  \/ \E r \in CreateReqs, code \in Codes : CreateLookup(r, code)
  \/ \E r \in CreateReqs, body \in ClassBodies :
       CreateInsert(r, body.capacity, body.status)
  \/ \E r \in CreateReqs : CreateStoreFail(r)

\* class creation reads only the invite codes of the existing classes
InitCreate ==
  /\ InitFresh
  /\ \A k \in classes : k.status = "active" /\ k.capacity = 1

SpecCreate == InitCreate /\ [][NextCreate]_vars

\* the store with its class active and nothing enrolled yet
InitClasses ==
  /\ InitFresh
  /\ \A k \in classes : k.status = "active"

\* one admission handler next to class updates and class deletions,
\* interleaved at the store operations
NextClasses ==
  \/ \E s \in Students : AdmitStart(SeqReq, s, 1)
  \/ AdmitStep(SeqReq)
  \/ \E body \in PatchBodies : PatchStart(1, body)
  \/ PatchInvalidId
  \/ PatchStep
  \/ DeleteClass(1)
  \/ DeleteClassInvalid
  \/ DeleteClassFail

SpecClasses == InitClasses /\ [][NextClasses]_vars

\* department creations and updates, two handlers at a time
NextDepartments ==
  \/ \E r \in CatalogReqs, code \in {0} \cup Codes : DeptPostStart(r, code)
  \/ \E r \in CatalogReqs, id \in {1, 2}, code \in {0} \cup Codes :
       DeptPatchStart(r, id, code)
  \/ \E r \in CatalogReqs : CatalogInvalidId(r)
  \/ \E r \in CatalogReqs : DeptPostFindCode(r)
  \/ \E r \in CatalogReqs : DeptPostInsert(r)
  \/ \E r \in CatalogReqs : DeptPatchFind(r)
  \/ \E r \in CatalogReqs : DeptPatchFindDuplicate(r)
  \/ \E r \in CatalogReqs : DeptPatchUpdate(r)
  \/ \E r \in CatalogReqs : CatalogStoreFail(r)

SpecDepartments == InitCreate /\ [][NextDepartments]_vars

\* department creations and deletions next to subject creations and
\* updates, two handlers at a time
NextCatalog ==
  \/ \E r \in CatalogReqs : DeptPostStart(r, NumCodes)
  \/ \E r \in CatalogReqs, id \in {1, 2} : DeptDeleteStart(r, id)
  \/ \E r \in CatalogReqs, departmentId \in {0, 1, 2} :
       SubjPostStart(r, NumCodes, departmentId)
  \/ \E r \in CatalogReqs, code \in {0, 1}, departmentId \in {0, 2} :
       SubjPatchStart(r, 1, code, departmentId)
  \/ \E r \in CatalogReqs : DeptPostFindCode(r)
  \/ \E r \in CatalogReqs : DeptPostInsert(r)
  \/ \E r \in CatalogReqs : DeptDeleteCount(r)
  \/ \E r \in CatalogReqs : DeptDeleteRemove(r)
  \/ \E r \in CatalogReqs : SubjPostFindCode(r)
  \/ \E r \in CatalogReqs : SubjPostFindDept(r)
  \/ \E r \in CatalogReqs : SubjPostInsert(r)
  \/ \E r \in CatalogReqs : SubjPatchFind(r)
  \/ \E r \in CatalogReqs : SubjPatchFindDuplicate(r)
  \/ \E r \in CatalogReqs : SubjPatchFindDept(r)
  \/ \E r \in CatalogReqs : SubjPatchUpdate(r)
  \/ \E r \in CatalogReqs : CatalogStoreFail(r)

SpecCatalog == InitCreate /\ [][NextCatalog]_vars

\* one list request, over the query parameters and the counts
NextList ==
  \/ page.pc = "idle" /\ \E pageParam \in QueryParams :
       \E limitParam \in QueryParams : ListStart(pageParam, limitParam)
  \/ \E total \in Totals : ListCount(total)
  \/ ListSelect
  \/ ListFail

SpecList == InitCreate /\ [][NextList]_vars

\* a store of two classes after admissions: class 1 of capacity 1, 4 or
\* 10 with any number of enrollments up to it, class 2 of capacity
\* 10 with 0, 7 or 9 enrollments
InitAnalytics ==
  /\ \E cap \in {1, 4, 10}, n \in 0..10, m \in {0, 7, 9} :
       /\ n <= cap
       /\ classes = {[id |-> 1, capacity |-> cap, status |-> "active",
                      inviteCode |-> 1, teacherId |-> 1, subjectId |-> 1],
                     [id |-> 2, capacity |-> 10, status |-> "active",
                      inviteCode |-> 2, teacherId |-> 1, subjectId |-> 1]}
       /\ enrollments =
            {[id |-> i, studentId |-> EarlierStudent(i), classId |-> 1] :
               i \in 1..n}
              \cup {[id |-> 10 + i, studentId |-> EarlierStudent(i),
                     classId |-> 2] : i \in 1..m}
  /\ nextEnrollmentId = 21
  /\ users = Students \cup {EarlierStudent(i) : i \in 1..10}
  /\ nextClassId = 3
  /\ NoRequests

\* the analytics query next to updates of class 1
NextAnalytics ==
  \/ CapacityStatusGet
  \/ CapacityStatusFail
  \/ \E body \in PatchBodies : PatchStart(1, body)
  \/ PatchStep

SpecAnalytics == InitAnalytics /\ [][NextAnalytics]_vars

\* user deletions next to class updates, interleaved at the store operations
NextUsers ==
  \/ \E u \in StudentInputs \ {0} : UserDeleteStart(u)
  \/ UserDeleteCount
  \/ UserDeleteRemove
  \/ UserDeleteFail
  \/ \E body \in PatchBodies : PatchStart(1, body)
  \/ PatchStep

SpecUsers == InitFresh /\ [][NextUsers]_vars

\* the same operations and enrollment removals, on a class of capacity 1
NextLifecycle ==
  \/ NextClasses
  \/ \E id \in 1..MaxEnrollmentId : DeleteEnrollment(id)

SpecLifecycle == InitCreate /\ [][NextLifecycle]_vars

\* the first call of the invite-code generator (the function keeps no state:
\* every later call computes the same)
NextGenerate == candidate = NoCandidate /\ \E x \in RandomValues : Generate(x)

SpecGenerate == InitCreate /\ [][NextGenerate]_vars

\* ================================================================ claims
\* the response of request r is sent in this step
Finishing(r) == apc[r] # "done" /\ apc'[r] = "done"

\* the handler of r left the required-fields check behind
Admitting(r) == aStudent[r] # 0 /\ aClass[r] # 0

ClassOf(c) == CHOOSE k \in classes : k.id = c

CheckOrder == <<"getClassById", "countEnrollments", "getUserById",
                "findEnrollment", "insertEnrollment">>

IsPrefix(p, q) == Len(p) <= Len(q) /\ \A i \in 1..Len(p) : p[i] = q[i]

\* the failure of the first of the five checks that fails on the store,
\* in the order class-exists, class-active, count-below-capacity,
\* student-exists, no-duplicate
FirstFailure(s, c) ==
  IF ClassRows(c) = {} THEN "InvalidClass"
  ELSE IF ClassOf(c).status # "active" THEN "ClassNotOpen"
  ELSE IF CountEnrollments(c) >= ClassOf(c).capacity THEN "CapacityExceeded"
  ELSE IF s \notin users THEN "InvalidStudent"
  ELSE IF FindEnrollment(s, c) # {} THEN "DuplicateEnrollment"
  ELSE "Success"

\* C1: an admission issues its store operations in the fixed order class
\* lookup, count, student lookup, duplicate lookup, insert, and the response
\* of a request that met no storage failure is the failure of the first
\* check that fails in that order (success when none fails); a class that is
\* both non-active and at capacity yields ClassNotOpen.
C1_CheckOrder ==
  /\ [](\A r \in AdmitReqs : IsPrefix(aOps[r], CheckOrder))
  /\ [][(/\ Finishing(SeqReq)
         /\ Admitting(SeqReq)
         /\ aOutcome'[SeqReq] # "StorageUnavailable")
        => aOutcome'[SeqReq] = FirstFailure(aStudent[SeqReq], aClass[SeqReq])
       ]_vars

\* C1 witness: a request against a class that is both non-active and full
\* was answered ClassNotOpen
C1_Witness ==
  /\ apc[SeqReq] = "done"
  /\ aOutcome[SeqReq] = "ClassNotOpen"
  /\ ClassRows(aClass[SeqReq]) # {}
  /\ ClassOf(aClass[SeqReq]).status # "active"
  /\ CountEnrollments(aClass[SeqReq]) >= ClassOf(aClass[SeqReq]).capacity

\* C2: under any interleaving of admissions there is at most one enrollment
\* record for any pair (studentId, classId).
C2_PairUnique ==
  \A e1 \in enrollments, e2 \in enrollments :
    (e1.studentId = e2.studentId /\ e1.classId = e2.classId) => e1 = e2

\* C2 witness: two concurrent admissions of the same student to the same
\* class both passed the duplicate lookup; one has inserted, the other is
\* about to
C2_Witness ==
  \E r \in AdmitReqs, q \in AdmitReqs :
    /\ r # q
    /\ aStudent[r] = aStudent[q] /\ aClass[r] = aClass[q]
    /\ aOutcome[r] = "Success"
    /\ apc[q] = "insertEnrollment"
    /\ FindEnrollment(aStudent[q], aClass[q]) # {}

\* C3: with two admission handlers in flight the enrollment count of a class
\* never exceeds its capacity by more than one.
C3_OverByAtMostOne ==
  \A k \in classes : CountEnrollments(k.id) <= k.capacity + 1

\* C3 witness: two concurrent admissions of different students both passed
\* the capacity check for the last seat and both inserted
C3_Witness ==
  \E r \in AdmitReqs, q \in AdmitReqs, k \in classes :
    /\ r # q
    /\ aClass[r] = k.id /\ aClass[q] = k.id
    /\ aStudent[r] # aStudent[q]
    /\ aOutcome[r] = "Success" /\ aOutcome[q] = "Success"
    /\ CountEnrollments(k.id) = k.capacity + 1

\* C4: after any interleaving of class creations no two class rows hold the
\* same invite code.
C4_InviteCodeUnique ==
  \A k1 \in classes, k2 \in classes :
    k1.inviteCode = k2.inviteCode => k1 = k2

\* C4 witness: two concurrent creations drew the same code and both saw it
\* free; one has inserted its class, the other is about to insert
C4_Witness ==
  \E r \in CreateReqs, q \in CreateReqs :
    /\ r # q
    /\ cOutcome[r] = "Created"
    /\ \E k \in classes : k.id = cCreated[r] /\ k.inviteCode = inviteCode[q]
    /\ cpc[q] = "insertClass"
    /\ checked[q] = "free"

\* C5: a creation whose attempt budget is exhausted (every lookup found the
\* candidate taken) fails with AllocationExhausted without reaching the
\* insert; it inserts no class.
C5_ExhaustionAborts ==
  \A r \in CreateReqs :
    (attempts[r] = MaxAttempts /\ cpc[r] # "lookup") =>
      /\ cpc[r] = "done"
      /\ cOutcome[r] = "AllocationExhausted"
      /\ cCreated[r] = 0

\* C5, the insert only: no creation with an exhausted budget creates a class
C5_NoClassAfterExhaustion ==
  \A r \in CreateReqs : attempts[r] = MaxAttempts => cOutcome[r] # "Created"

\* C6: the capacity check of an admission into an existing active class:
\* when the class's enrollment count is at least its capacity the request
\* ends with CapacityExceeded carrying the capacity, issues no further store
\* operation and inserts nothing; when the count is below capacity the check
\* passes and the handler goes on to the student lookup.
C6_CapacityCheck ==
  /\ [](\A r \in AdmitReqs :
          aOutcome[r] = "CapacityExceeded" =>
            aOps[r] = <<"getClassById", "countEnrollments">>)
  /\ [][\A r \in AdmitReqs :
          (/\ apc[r] = "countEnrollments"
           /\ apc'[r] # "countEnrollments"
           /\ aOutcome'[r] # "StorageUnavailable")
          => IF CountEnrollments(aClass[r]) >= ClassOf(aClass[r]).capacity
               THEN /\ aOutcome'[r] = "CapacityExceeded"
                    /\ aDetail'[r] = ClassOf(aClass[r]).capacity
                    /\ enrollments' = enrollments
               ELSE /\ apc'[r] = "getUserById"
                    /\ aOutcome'[r] = "none"
       ]_vars

\* C6 witness: a class of capacity 2 holding 2 enrollments answered
\* CapacityExceeded with 2 in the detail
C6_Witness ==
  \E r \in AdmitReqs :
    /\ aOutcome[r] = "CapacityExceeded"
    /\ aDetail[r] = 2
    /\ ClassOf(aClass[r]).capacity = 2
    /\ CountEnrollments(aClass[r]) = 2

\* a request for an existing student and an existing active class is answered
\* without a storage failure
AnsweredForOpenClass(r) ==
  /\ Finishing(r)
  /\ Admitting(r)
  /\ aOutcome'[r] # "StorageUnavailable"
  /\ aStudent[r] \in users
  /\ ClassRows(aClass[r]) # {}
  /\ ClassOf(aClass[r]).status = "active"

FreeSeat(c) == CountEnrollments(c) < ClassOf(c).capacity

\* the first admission of a pair into a class with a free seat succeeds and
\* returns the identifier of the record it inserted
FirstCallSucceeds(r) ==
  (FindEnrollment(aStudent[r], aClass[r]) = {} /\ FreeSeat(aClass[r])) =>
    /\ aOutcome'[r] = "Success"
    /\ \E e \in enrollments' \ enrollments :
         /\ e.id = aDetail'[r]
         /\ e.studentId = aStudent[r]
         /\ e.classId = aClass[r]

\* C7 as stated: admitting the same (studentId, classId) again after a
\* successful admission fails with DuplicateEnrollment, also when the first
\* admission took the last seat.
C7_RepeatIsDuplicate ==
  [][AnsweredForOpenClass(SeqReq) =>
       /\ FirstCallSucceeds(SeqReq)
       /\ FindEnrollment(aStudent[SeqReq], aClass[SeqReq]) # {} =>
            aOutcome'[SeqReq] = "DuplicateEnrollment"
    ]_vars

\* C7 amended: the repeated admission never reaches the insert; it fails with
\* DuplicateEnrollment when the class still has a free seat and with
\* CapacityExceeded when the first admission took the last seat.
C7_RepeatAmended ==
  /\ [][AnsweredForOpenClass(SeqReq) =>
          /\ FirstCallSucceeds(SeqReq)
          /\ FindEnrollment(aStudent[SeqReq], aClass[SeqReq]) # {} =>
               aOutcome'[SeqReq] = IF FreeSeat(aClass[SeqReq])
                                     THEN "DuplicateEnrollment"
                                     ELSE "CapacityExceeded"
       ]_vars
  /\ [][FindEnrollment(aStudent[SeqReq], aClass[SeqReq]) # {} =>
          apc'[SeqReq] # "insertEnrollment"]_vars

\* C7 witness: the pair was admitted (its record carries a fresh identifier)
\* and the repeated admission was answered DuplicateEnrollment
C7_Witness ==
  /\ apc[SeqReq] = "done"
  /\ aOutcome[SeqReq] = "DuplicateEnrollment"
  /\ FindEnrollment(aStudent[SeqReq], aClass[SeqReq]) # {}
  /\ FreeSeat(aClass[SeqReq])

\* C8: an admission whose classId matches no class issues the class lookup
\* and nothing else, and is answered InvalidClass (or StorageUnavailable when
\* the lookup itself failed); InvalidClass is answered in no other case.
C8_InvalidClassShortCircuits ==
  \A r \in AdmitReqs :
    /\ (Admitting(r) /\ ClassRows(aClass[r]) = {}) =>
         /\ apc[r] \in {"getClassById", "done"}
         /\ IsPrefix(aOps[r], <<"getClassById">>)
         /\ apc[r] = "done" =>
              aOutcome[r] \in {"InvalidClass", "StorageUnavailable"}
    /\ aOutcome[r] = "InvalidClass" =>
         (ClassRows(aClass[r]) = {} /\ aOps[r] = <<"getClassById">>)

\* C8 witness: a request naming an unknown class was answered InvalidClass
\* after the class lookup alone
C8_Witness ==
  \E r \in AdmitReqs :
    /\ aOutcome[r] = "InvalidClass"
    /\ ClassRows(aClass[r]) = {}
    /\ aOps[r] = <<"getClassById">>

C10_RoundTrip ==
  /\ [](\A r \in AdmitReqs :
          aOutcome[r] = "Success" =>
            {e.id : e \in FindEnrollment(aStudent[r], aClass[r])}
              = {aDetail[r]})
  /\ [][\A r \in AdmitReqs :
          (Finishing(r) /\ aOutcome'[r] = "Success") =>
            CountEnrollments(aClass[r])' = CountEnrollments(aClass[r]) + 1
       ]_vars

\* C10 witness: an admission succeeded and its record is found under the
\* returned identifier
C10_Witness ==
  \E r \in AdmitReqs :
    /\ aOutcome[r] = "Success"
    /\ \E e \in FindEnrollment(aStudent[r], aClass[r]) : e.id = aDetail[r]

\* C11: when a request for a pair (student, class) is issued only after the
\* previous request for that pair was answered, whatever the answer (also a
\* 500 after the insert committed), the pair never has two enrollment
\* records, and a request that reaches the insert has none for its pair: the
\* duplicate lookup alone stops the retry
C11_RetryIsSafe ==
  /\ \A s \in StudentInputs, c \in ClassInputs :
       Cardinality(FindEnrollment(s, c)) <= 1
  /\ \A r \in AdmitReqs :
       apc[r] = "insertEnrollment"
         => FindEnrollment(aStudent[r], aClass[r]) = {}

\* a request failed with a 500 at its insert, and the retry of the same pair
\* was answered "already enrolled" with the one record of the pair in place
C11_Witness ==
  \E r \in AdmitReqs, q \in AdmitReqs :
    /\ r # q
    /\ apc[q] = "done" /\ aOutcome[q] = "StorageUnavailable"
    /\ Len(aOps[q]) = 5
    /\ apc[r] = "done" /\ aOutcome[r] = "DuplicateEnrollment"
    /\ aStudent[r] = aStudent[q] /\ aClass[r] = aClass[q]
    /\ Cardinality(FindEnrollment(aStudent[r], aClass[r])) = 1
    /\ nextEnrollmentId = Cardinality(enrollments) + 1

\* C12: an invite-code allocation issues at most 10 uniqueness lookups, and
\* one whose 10 lookups all found the candidate taken stops there, with every
\* generated candidate checked, and reports AllocationExhausted
C12_BoundedAllocation ==
  \A r \in CreateReqs :
    /\ lookups[r] <= MaxAttempts
    /\ (lookups[r] = MaxAttempts /\ checked[r] = "unchecked")
         => cpc[r] = "done" /\ cOutcome[r] = "AllocationExhausted"

\* C13: a creation whose lookup runs while no class holds its candidate goes
\* on to the insert with that candidate, also when another creation already
\* stands at its insert with the same code: both reach the insert step with
\* the same invite code
C13_BothReachInsert ==
  [][\A r \in CreateReqs, q \in CreateReqs :
       ( /\ r # q
         /\ cpc[q] = "insertClass" /\ inviteCode[q] = inviteCode[r]
         /\ cpc[r] = "lookup" /\ lookups'[r] = lookups[r] + 1
         /\ ClassesWithInviteCode(inviteCode[r]) = {} )
       => /\ cpc'[r] = "insertClass"
          /\ inviteCode'[r] = inviteCode[r]
          /\ cpc'[q] = "insertClass" /\ inviteCode'[q] = inviteCode[q]]_vars

\* two creations stand at the insert with the same code, each having seen
\* it free, and no class holds the code yet
C13_Witness ==
  \E r \in CreateReqs, q \in CreateReqs :
    /\ r # q
    /\ cpc[r] = "insertClass" /\ cpc[q] = "insertClass"
    /\ inviteCode[r] = inviteCode[q]
    /\ checked[r] = "free" /\ checked[q] = "free"
    /\ ClassesWithInviteCode(inviteCode[r]) = {}

\* the seven outcomes of an admission
AdmissionOutcomes ==
  {"Success", "InvalidClass", "ClassNotOpen", "CapacityExceeded",
   "InvalidStudent", "DuplicateEnrollment", "StorageUnavailable"}

\* the response of kind `kind`, sent by r in this step, tells the truth about
\* the store operation r has just issued
Truthful(r, kind) ==
  LET s == aStudent[r]
      c == aClass[r]
  IN CASE kind = "Success" ->
            /\ apc[r] = "insertEnrollment"
            /\ [id |-> aDetail'[r], studentId |-> s, classId |-> c]
                 \notin enrollments
            /\ enrollments' = enrollments \cup
                 {[id |-> aDetail'[r], studentId |-> s, classId |-> c]}
       [] kind = "InvalidClass" ->
            apc[r] = "getClassById" /\ ClassRows(c) = {}
       [] kind = "ClassNotOpen" ->
            /\ apc[r] = "getClassById"
            /\ ClassRows(c) # {} /\ ClassOf(c).status # "active"
       [] kind = "CapacityExceeded" ->
            /\ apc[r] = "countEnrollments"
            /\ CountEnrollments(c) >= classInfo[r].capacity
       [] kind = "InvalidStudent" ->
            apc[r] = "getUserById" /\ s \notin users
       [] kind = "DuplicateEnrollment" ->
            apc[r] = "findEnrollment" /\ FindEnrollment(s, c) # {}
       [] kind = "StorageUnavailable" -> enrollments' = enrollments
       [] OTHER -> FALSE

\* C14: every admission request that passed the required-fields check ends
\* in exactly one of seven outcomes with pairwise different responses; a
\* success is answered only by an insert that took place and a business
\* failure only by the check that found it, so a store operation that fails
\* is answered StorageUnavailable (HTTP 500), the only server-side status
C14_SevenOutcomes ==
  /\ [](\A r \in AdmitReqs :
         (apc[r] = "done" /\ Admitting(r)) => aOutcome[r] \in AdmissionOutcomes)
  /\ [](\A k1 \in AdmissionOutcomes, k2 \in AdmissionOutcomes :
         /\ k1 # k2 => ResponseOf(k1) # ResponseOf(k2)
         /\ ResponseOf(k1).status = 500 <=> k1 = "StorageUnavailable")
  /\ [][\A r \in AdmitReqs :
         (Finishing(r) /\ apc[r] \in StoreOps) => Truthful(r, aOutcome'[r])]_vars

\* one request was answered StorageUnavailable although all of its checks
\* pass on the store, another one was answered with a success
C14_Witness ==
  \E r \in AdmitReqs, q \in AdmitReqs :
    /\ apc[r] = "done" /\ aOutcome[r] = "StorageUnavailable"
    /\ Admitting(r) /\ Len(aOps[r]) >= 1
    /\ FirstFailure(aStudent[r], aClass[r]) = "Success"
    /\ apc[q] = "done" /\ aOutcome[q] = "Success"

UpperAlnum ==
  {Digits36[i] : i \in 1..10} \cup {UpperLetters[i] : i \in 1..26}

\* C17: every string returned by generateInviteCode() has length 6 and
\* consists of upper-case letters and digits only
C17_FixedLengthAlnum ==
  candidate # NoCandidate =>
    /\ Len(candidate) = 6
    /\ \A i \in 1..Len(candidate) : candidate[i] \in UpperAlnum

\* C18: with admissions and removals served one at a time and capacities
\* left alone, no class ever has more enrollments than its capacity
C18_WithinCapacity ==
  \A k \in classes : CountEnrollments(k.id) <= k.capacity

\* after a removal freed a seat, an admission took the last seat of the class
C18_Witness ==
  \E k \in classes :
    /\ CountEnrollments(k.id) = k.capacity
    /\ delResponse = 200
    /\ apc[SeqReq] = "done" /\ aOutcome[SeqReq] = "Success"
    /\ aClass[SeqReq] = k.id
    /\ aDetail[SeqReq] = nextEnrollmentId - 1
    /\ \E e \in enrollments : e.id = aDetail[SeqReq]

\* C19: with N admission handlers in flight against a class of constant
\* capacity C and no removal, the class never has more than C + N - 1
\* enrollments, and an insert takes the count above C only when the count
\* its handler read is out of date: another handler, which had read the
\* count too, inserted in between
C19_RaceBound ==
  /\ [](\A k \in classes :
         CountEnrollments(k.id) <= k.capacity + Cardinality(AdmitReqs) - 1)
  /\ [][\A r \in AdmitReqs :
         ( /\ apc[r] = "insertEnrollment"
           /\ enrollments' # enrollments
           /\ aOutcome'[r] = "Success"
           /\ Cardinality({e \in enrollments' : e.classId = aClass[r]})
                > ClassOf(aClass[r]).capacity )
         => aCount[r] < CountEnrollments(aClass[r])]_vars

\* the class is over capacity by N - 1, the last insert being that of a
\* handler that had read a count below capacity
C19_Witness ==
  \E r \in AdmitReqs, k \in classes :
    /\ CountEnrollments(k.id) = k.capacity + Cardinality(AdmitReqs) - 1
    /\ apc[r] = "done" /\ aOutcome[r] = "Success" /\ aClass[r] = k.id
    /\ aDetail[r] = nextEnrollmentId - 1
    /\ Len(aOps[r]) = 5

\* this step is a successful admission adding exactly one record
AdmissionAdds ==
  \E r \in AdmitReqs :
    /\ apc[r] = "insertEnrollment" /\ aOutcome'[r] = "Success"
    /\ \E e \in enrollments' \ enrollments :
         /\ enrollments' = enrollments \cup {e}
         /\ e = [id |-> aDetail'[r], studentId |-> aStudent[r],
                  classId |-> aClass[r]]

\* this step is an enrollment removal taking away exactly one record
RemovalRemoves ==
  /\ classes' = classes
  /\ delResponse' = 200
  /\ \E e \in enrollments : enrollments' = enrollments \ {e}

\* this step is a class deletion taking away the records of that class
ClassDeletionCascades ==
  \E k \in classes :
    /\ classes' = classes \ {k}
    /\ classDelResponse' = 200
    /\ enrollments' = {e \in enrollments : e.classId # k.id}

C16_CapacityPositive ==
  \A k \in classes : k.capacity >= 1

\* C20: no enrollment is inserted into a class that is not active at the
\* moment of the insert
C20_InsertOnlyIntoActive ==
  [][\A e \in enrollments' \ enrollments :
       ClassRows(e.classId) # {} /\ ClassOf(e.classId).status = "active"]_vars

\* C20 as the code has it: an enrollment is inserted only by an admission
\* whose class lookup read the status active, into a class that still
\* exists at the moment of the insert
C20_InsertAfterActiveLookup ==
  [][\A r \in AdmitReqs, e \in enrollments' \ enrollments :
       (apc[r] = "insertEnrollment" /\ apc'[r] = "done")
         => /\ classInfo[r].id = e.classId
            /\ classInfo[r].status = "active"
            /\ ClassRows(e.classId) # {}]_vars

\* an admission that read the class active has inserted its enrollment, and
\* the class is inactive
C20_Witness ==
  \E k \in classes, e \in enrollments :
    /\ k.status = "inactive"
    /\ e.classId = k.id /\ e.id = aDetail[SeqReq]
    /\ apc[SeqReq] = "done" /\ aOutcome[SeqReq] = "Success"
    /\ classInfo[SeqReq].status = "active"
    /\ pOutcome = 200

\* the rows of class c now in the table
CurrentRows(c) == {e \in enrollments : e.classId = c}

\* this step is an enrollment removal (the admission handler does not move)
RemovalStep == admitVars' = admitVars /\ delResponse' # 0

\* C21: the capacity check counts the enrollments the class has now, not
\* those it ever had: once a removal has freed a seat of a class that had
\* been filled, the admission of an existing, not yet enrolled student into
\* the active class passes the capacity check and ends with a success
\* (unless a store operation fails); a removal of an id that no enrollment
\* has answers 404 and changes nothing, any other removal takes away exactly
\* the row with that id
C21_CurrentCount ==
  /\ [][\A k \in classes :
         ( /\ apc[SeqReq] \in StoreOps /\ apc'[SeqReq] # apc[SeqReq]
           /\ aClass[SeqReq] = k.id /\ k.status = "active"
           /\ aStudent[SeqReq] \in users
           /\ FindEnrollment(aStudent[SeqReq], k.id) = {}
           /\ Cardinality(CurrentRows(k.id)) < k.capacity
           /\ nextEnrollmentId - 1 >= k.capacity )
         => \/ apc'[SeqReq] \in StoreOps
            \/ aOutcome'[SeqReq] \in {"Success", "StorageUnavailable"}]_vars
  /\ [][RemovalStep =>
         \/ delResponse' = 404 /\ enrollments' = enrollments
         \/ /\ delResponse' = 200
            /\ \E e \in enrollments : enrollments' = enrollments \ {e}
         \/ delResponse' \in {400, 500} /\ enrollments' = enrollments]_vars

\* a class had been filled, a removal freed a seat, and the next admission
\* got the seat: more rows were inserted than the class has seats
C21_Witness ==
  \E k \in classes :
    /\ apc[SeqReq] = "done" /\ aOutcome[SeqReq] = "Success"
    /\ aClass[SeqReq] = k.id
    /\ aDetail[SeqReq] > k.capacity
    /\ Cardinality(CurrentRows(k.id)) <= k.capacity
    /\ \A e \in enrollments : e.id # 1

\* C22: a class creation inserts only a code that its latest uniqueness
\* lookup found held by no class
C22_InsertedCodeWasChecked ==
  [][\A r \in CreateReqs :
       (cpc[r] = "insertClass" /\ classes' # classes /\ cpc'[r] = "done")
         => checked[r] = "free"]_vars

\* C23: no step changes the invite code of a class; the update statement
\* of PATCH /classes/:id writes exactly the fields present in the body and
\* leaves the absent fields, the invite code and the other rows as they
\* were; an update of a class id that has no row answers 404 (500 when the
\* lookup itself fails) and changes nothing
C23_UpdateFrame ==
  /\ [][\A k \in classes : \A k2 \in classes' :
          k2.id = k.id => k2.inviteCode = k.inviteCode]_vars
  /\ [][(ppc = "update" /\ pOutcome' = 200) =>
          /\ {k.id : k \in classes'} = {k.id : k \in classes}
          /\ \A k \in classes : \A k2 \in classes' :
               k2.id = k.id =>
                 IF k.id # pClass THEN k2 = k
                 ELSE /\ k2.inviteCode = k.inviteCode
                      /\ k2.id = k.id
                      /\ k2.capacity = IF pBody.capacity = Undefined
                                         THEN k.capacity ELSE pBody.capacity
                      /\ k2.status = IF pBody.status = "undefined"
                                       THEN k.status ELSE pBody.status
                      /\ k2.subjectId = IF pBody.subjectId = 0
                                          THEN k.subjectId
                                          ELSE pBody.subjectId
                      /\ k2.teacherId = IF pBody.teacherId = 0
                                          THEN k.teacherId
                                          ELSE pBody.teacherId
          /\ UNCHANGED <<enrollments, users>>]_vars
  /\ [][(ppc = "findClass" /\ ppc' # ppc /\ ClassRows(pClass) = {}) =>
          /\ ppc' = "done" /\ pOutcome' \in {404, 500}
          /\ UNCHANGED <<classes, enrollments, users>>]_vars
  /\ [][(pOutcome # 404 /\ pOutcome' = 404) =>
          ppc = "findClass" /\ ClassRows(pClass) = {}]_vars

\* an update that gave capacity, subject and teacher and no status has
\* answered 200: the row has the new values and its old status and code
C23_Witness ==
  /\ ppc = "done" /\ pOutcome = 200
  /\ \E k \in classes :
       /\ k.capacity = 0 /\ k.teacherId = 2 /\ k.status = "active"
       /\ k.inviteCode = 1

\* C24: the update statement of PATCH /classes/:id stores no capacity
\* smaller than the number of enrollments the class has at that moment
C24_CapacityCoversCount ==
  [][(ppc = "update" /\ pBody.capacity # Undefined) =>
       \A k \in classes' :
         k.id = pClass =>
           Cardinality({e \in enrollments' : e.classId = k.id})
             <= k.capacity]_vars

\* the active classes whose teacher is u
ActiveClassesTaughtBy(u) ==
  {k \in classes : k.status = "active" /\ k.teacherId = u}

\* C27: DELETE /users/:id answers 409, leaving users and classes as they
\* were, exactly when its count finds an active class taught by the user;
\* otherwise it goes on to the delete statement, which removes the user and
\* answers 200, or answers 404 when no user has the id (500 is the answer
\* of a failed store operation, which changes nothing)
C27_ConflictIffTeachesActive ==
  /\ [][(udel.pc = "countClasses" /\ udel' # udel) =>
          /\ UNCHANGED <<users, classes, enrollments>>
          /\ \/ udel'.status = 500
             \/ /\ ActiveClassesTaughtBy(udel.id) # {}
                /\ udel'.pc = "done" /\ udel'.status = 409
             \/ /\ ActiveClassesTaughtBy(udel.id) = {}
                /\ udel'.pc = "deleteUser"]_vars
  /\ [][(udel.pc = "deleteUser" /\ udel' # udel) =>
          /\ udel'.pc = "done"
          /\ \/ udel'.status = 500 /\ users' = users
             \/ /\ udel.id \in users /\ udel'.status = 200
                /\ users' = users \ {udel.id}
             \/ /\ udel.id \notin users /\ udel'.status = 404
                /\ users' = users]_vars
  /\ [][(udel.status # 409 /\ udel'.status = 409) =>
          ActiveClassesTaughtBy(udel.id) # {}]_vars

\* the teacher of a class that is not active has been deleted, and the
\* class row still names them
C27_Witness ==
  /\ udel.pc = "done" /\ udel.status = 200
  /\ \E k \in classes :
       k.teacherId \notin users /\ k.status # "active"

C28_Pagination ==
  LET p == ParsedPage(page.page)
      l == ParsedLimit(page.limit)
      invalid == p.nan \/ p.value < 1 \/ l.nan \/ l.value < 1
  IN /\ page.pc # "idle" => (invalid <=> page.status = 400)
     /\ page.status = 400 => page.pc = "done" /\ page.queries = 0
     /\ (page.pc # "idle" /\ ~invalid) =>
          /\ page.limitPerPage \in 1..100
          /\ page.limitPerPage <= l.value
          /\ page.limitPerPage = l.value \/ page.limitPerPage = 100
          /\ page.offset = (p.value - 1) * page.limitPerPage
     /\ page.status = 200 =>
          /\ page.totalPages * page.limitPerPage >= page.total
          /\ \A t \in 0..page.total :
               t * page.limitPerPage >= page.total => t >= page.totalPages

\* a request with limit=250 and 101 rows was answered: 100 rows a page, two
\* pages
C28_Witness ==
  /\ page.pc = "done" /\ page.status = 200
  /\ page.limit = [kind |-> "string", str |-> <<"2", "5", "0">>]
  /\ page.total = 101
  /\ page.limitPerPage = 100 /\ page.totalPages = 2

\* C29: an answer of the capacity-status analytics counts every class in
\* exactly one category, so the four counters sum to the number of classes:
\* full counts the classes whose enrollment count is at least the capacity,
\* almostFull those at 90% or more and below 100%, nearFull those at 70% or
\* more and below 90%, available the others
C29_CategoriesByUtilization ==
  [][(capacityStatus' # capacityStatus /\ capacityStatus'.status = 200) =>
       LET n(k) == Cardinality({e \in enrollments : e.classId = k.id})
           full == {k \in classes : n(k) >= k.capacity}
           almostFull == {k \in classes \ full :
                            n(k) * 100 >= 90 * k.capacity}
           nearFull == {k \in classes \ (full \cup almostFull) :
                          n(k) * 100 >= 70 * k.capacity}
       IN /\ capacityStatus'.full = Cardinality(full)
          /\ capacityStatus'.almostFull = Cardinality(almostFull)
          /\ capacityStatus'.nearFull = Cardinality(nearFull)
          /\ capacityStatus'.available =
               Cardinality(classes) - Cardinality(full)
                 - Cardinality(almostFull) - Cardinality(nearFull)
          /\ capacityStatus'.available + capacityStatus'.nearFull
               + capacityStatus'.almostFull + capacityStatus'.full
               = Cardinality(classes)]_vars

====
